---- MODULE Spec2Model ----
(***************************************************************************)
(* Model of "Importing Notebooks.ipynb": find_notebook, NotebookLoader and *)
(* NotebookFinder, driven by an interactive session that imports notebooks *)
(* and calls the finder and the loaders directly.                          *)
(*                                                                         *)
(* Python strings are sequences of one-character strings, so that rsplit,  *)
(* os.path.join, os.path.sep.join and str.replace are computed.            *)
(***************************************************************************)
EXTENDS Integers, Sequences, FiniteSets, TLC

\* ------------------------------------------------------------------------
\* Bounds
\* ------------------------------------------------------------------------
\* number of top-level calls the interactive session makes
MaxCalls == 3

\* number of top-level calls two threads make between them
MaxCallsMT == 2

\* number of regular files present when find_notebook is exercised on its own
MaxLocFiles == 3

\* ------------------------------------------------------------------------
\* Strings
\* ------------------------------------------------------------------------
Sep == "/"

Ext == <<".", "i", "p", "y", "n", "b">>

Max(S) == CHOOSE x \in S : \A y \in S : y <= x

\* Python None and a str, as one comparable shape
NoneStr == [isNone |-> TRUE, s |-> <<>>]

Str(s) == [isNone |-> FALSE, s |-> s]

\* Python None and a list of str (the `path` argument)
NonePath == [isNone |-> TRUE, dirs |-> <<>>]

List(ds) == [isNone |-> FALSE, dirs |-> ds]

\* `not path`: None and the empty list are falsy
Falsy(path) == path.isNone \/ path.dirs = <<>>

\* fullname.rsplit('.', 1)[-1]
rsplit_last(fullname) ==
  LET dots == {k \in 1..Len(fullname) : fullname[k] = "."}
  IN  IF dots = {} THEN fullname
      ELSE SubSeq(fullname, Max(dots) + 1, Len(fullname))

\* os.path.join(d, f) for two components
path_join(d, f) ==
  IF f # <<>> /\ f[1] = Sep THEN f
  ELSE IF d = <<>> \/ d[Len(d)] = Sep THEN d \o f
  ELSE d \o <<Sep>> \o f

\* s.replace("_", " ")
replace_us(s) == [k \in 1..Len(s) |-> IF s[k] = "_" THEN " " ELSE s[k]]

\* os.path.sep.join(path)
RECURSIVE sep_join(_)
sep_join(ds) ==
  IF ds = <<>> THEN <<>>
  ELSE IF Len(ds) = 1 THEN ds[1]
  ELSE ds[1] \o <<Sep>> \o sep_join(Tail(ds))

\* ------------------------------------------------------------------------
\* find_notebook
\* ------------------------------------------------------------------------
\* the candidate built first in a directory
nb_exact(d, name) == path_join(d, name \o Ext)

\* the candidate tried when the first one is not a file
nb_fallback(nb_path) == replace_us(nb_path)

\* the body of `for d in path`, over the regular files `fs`
RECURSIVE find_in(_, _, _)
find_in(name, dirs, fs) ==
  IF dirs = <<>> THEN NoneStr
  ELSE LET nb_path == nb_exact(Head(dirs), name)
       IN  IF nb_path \in fs THEN Str(nb_path)
           ELSE IF nb_fallback(nb_path) \in fs THEN Str(nb_fallback(nb_path))
           ELSE find_in(name, Tail(dirs), fs)

find_notebook(fullname, path, fs) ==
  find_in(rsplit_last(fullname), IF Falsy(path) THEN << <<>> >> ELSE path.dirs, fs)

\* ------------------------------------------------------------------------
\* Values, namespaces, statements, notebooks
\* ------------------------------------------------------------------------
VarNames == {"x", "y", "w", "v", "z", "m", "a", "b", "c", "d", "e", "n", "get_ipython"}

Unbound == [t |-> "unbound", v |-> 0]

PyInt(k) == [t |-> "int", v |-> k]

ModRef(id) == [t |-> "module", v |-> id]

Fn == [t |-> "function", v |-> 0]

EmptyNs == [k \in VarNames |-> Unbound]

\* one statement of a cell's source
Stmt(op, name, val, src, mod) ==
  [op |-> op, name |-> name, val |-> val, src |-> src, mod |-> mod]

\* name = val
Bind(name, val) == Stmt("bind", name, val, "", <<>>)

\* name = src + 1
Use(name, src) == Stmt("use", name, 0, src, <<>>)

\* import mod   (binds `name`)
Import(name, mod) == Stmt("import", name, 0, "", mod)

\* raise RuntimeError
Raise == Stmt("raise", "", 0, "", <<>>)

\* an IPython line magic that stores val under name in the shell's user_ns
Magic(name, val) == Stmt("%magic", name, val, "", <<>>)

Cell(type, source) == [cell_type |-> type, source |-> source]

Notebook(cells) == [ok |-> TRUE, cells |-> cells]

\* a file that nbformat.read cannot parse
Corrupt == [ok |-> FALSE, cells |-> <<>>]

nA == <<"a">>

nB == <<"b">>

nC == <<"c">>

nD == <<"d">>

nE == <<"e">>

nN == <<"n">>

dirP == <<"p">>

dirQ == <<"q">>

dirPQ == <<"p", "/", "q">>

\* the files of the working directory
Files ==
  (nA \o Ext :> Notebook(<< Cell("code", <<Bind("x", 1)>>),
                            Cell("markdown", <<Bind("z", 9)>>),
                            Cell("code", <<Use("y", "x"), Import("b", nB)>>) >>))
  @@ (nB \o Ext :> Notebook(<< Cell("code", <<Import("a", nA), Magic("m", 5)>>) >>))
  @@ (nC \o Ext :> Notebook(<< Cell("code", <<Bind("x", 1)>>),
                               Cell("code", <<Bind("w", 2), Raise>>),
                               Cell("code", <<Bind("v", 3)>>) >>))
  @@ (nD \o Ext :> Notebook(<< Cell("raw", <<Raise>>),
                               Cell("code", <<Magic("m", 7), Import("c", nC)>>) >>))
  @@ (nE \o Ext :> Corrupt)
  @@ (path_join(dirP, nN \o Ext) :> Notebook(<< Cell("code", <<Bind("x", 1)>>) >>))
  @@ (path_join(dirPQ, nN \o Ext) :> Notebook(<< Cell("code", <<Bind("x", 2)>>) >>))

\* os.path.isfile
IsFile == DOMAIN Files

\* names the session imports, with the variable each import binds
ImportNames == {<<"a", nA>>, <<"b", nB>>, <<"c", nC>>, <<"d", nD>>, <<"e", nE>>, <<"n", nN>>}

\* names and paths the session hands to find_module and load_module
CallNames == {nA, nC, nN}

CallPaths == {NonePath, List(<<>>), List(<< <<>> >>), List(<<dirP, dirQ>>), List(<<dirPQ>>)}

\* ------------------------------------------------------------------------
\* Exceptions
\* ------------------------------------------------------------------------
\* an exception object: its type and the place that raised it
Exc(type, mod, cell, stmt) == [type |-> type, mod |-> mod, cell |-> cell, stmt |-> stmt]

NoExc == Exc("", 0, 0, 0)

\* ------------------------------------------------------------------------
\* NotebookFinder
\* ------------------------------------------------------------------------
\* NotebookLoader.__init__
NotebookLoader(path) == [path |-> path]

KeyNone == [k |-> "None", s |-> <<>>]

KeyList == [k |-> "list", s |-> <<>>]

KeyStr(s) == [k |-> "str", s |-> s]

\* key = path; if path: key = os.path.sep.join(path)
cache_key(path) ==
  IF ~Falsy(path) THEN KeyStr(sep_join(path.dirs))
  ELSE IF path.isNone THEN KeyNone ELSE KeyList

\* a list is not hashable: `key not in self.loaders` raises TypeError
Hashable(key) == key.k # "list"

\* find_module storing a loader for the key before it looks for the notebook
find_module_eager(fullname, path, cache, objs) ==
  LET nb_path == find_notebook(fullname, path, IsFile)
      key == cache_key(path)
      fresh == Hashable(key) /\ key \notin DOMAIN cache
      cache1 == IF fresh THEN (key :> (Len(objs) + 1)) @@ cache ELSE cache
      objs1 == IF fresh THEN Append(objs, NotebookLoader(path)) ELSE objs
  IN  IF nb_path.isNone
        THEN [raised |-> FALSE, loader |-> 0, cache |-> cache1, objs |-> objs1]
      ELSE IF ~Hashable(key)
        THEN [raised |-> TRUE, loader |-> 0, cache |-> cache, objs |-> objs]
      ELSE [raised |-> FALSE, loader |-> cache1[key], cache |-> cache1, objs |-> objs1]

\* find_module: the value returned (0 is None), whether it raised, and the
\* loader cache and loader objects after the call
find_module(fullname, path, cache, objs) ==
  LET nb_path == find_notebook(fullname, path, IsFile)
      key == cache_key(path)
  IN  IF nb_path.isNone
        THEN [raised |-> FALSE, loader |-> 0, cache |-> cache, objs |-> objs]
      ELSE IF ~Hashable(key)
        THEN [raised |-> TRUE, loader |-> 0, cache |-> cache, objs |-> objs]
      ELSE IF key \notin DOMAIN cache
        THEN [raised |-> FALSE, loader |-> Len(objs) + 1,
              cache |-> (key :> (Len(objs) + 1)) @@ cache,
              objs |-> Append(objs, NotebookLoader(path))]
      ELSE [raised |-> FALSE, loader |-> cache[key], cache |-> cache, objs |-> objs]

\* ------------------------------------------------------------------------
\* NotebookLoader.load_module, line by line
\* ------------------------------------------------------------------------
\* new_module without `mod.__loader__ = self`
new_module_noloader(fullname, path, self) ==
  [name |-> fullname, file |-> path, loader |-> 0,
   dict |-> [EmptyNs EXCEPT !["get_ipython"] = Fn]]

\* mod = types.ModuleType(fullname); __file__; __loader__; get_ipython
new_module(fullname, path, self) ==
  [name |-> fullname, file |-> path, loader |-> self,
   dict |-> [EmptyNs EXCEPT !["get_ipython"] = Fn]]

\* register without the insertion before the cells run
register_skip(registry, fullname, id) == registry

\* parses accepting any file
parses_any(file) == TRUE

\* nb = read(f, 4): nbformat accepts the file
parses(file) == file.ok

\* sys.modules[fullname] = mod
register(registry, fullname, id) == (fullname :> id) @@ registry

\* swap_ns without the substitution
swap_ns_skip(f) == f.save_user_ns

\* self.shell.user_ns = mod.__dict__
swap_ns(f) == f.mod

\* restore_ns as a statement after the loop instead of a finally clause
restore_ns_on_success(f) == IF f.exc = NoExc THEN f.save_user_ns ELSE f.mod

\* finally: self.shell.user_ns = save_user_ns
restore_ns(f) == f.save_user_ns

\* cell_at iterating the cells backwards
cell_at_reversed(nb, i) == nb[Len(nb) + 1 - i]

\* for cell in nb.cells: the cell visited in the i-th iteration
cell_at(nb, i) == nb[i]

\* is_code without the test of the cell type
is_code_any(cell) == TRUE

\* if cell.cell_type == 'code'
is_code(cell) == cell.cell_type = "code"

\* input_transformer_manager.transform_cell: a line magic becomes a call of
\* get_ipython().run_line_magic, pure Python is left alone
transform_cell(source) ==
  [k \in 1..Len(source) |->
     IF source[k].op = "%magic" THEN [source[k] EXCEPT !.op = "run_magic"]
     ELSE source[k]]

\* exec compiles the whole cell first: magic syntax is not Python
Compiles(code) == \A k \in 1..Len(code) : code[k].op # "%magic"

\* load_exit with an `except: pass` around the loop
load_exit_swallow(f) == "return"

\* what leaves load_module after the try statement: the pending exception
\* is re-raised by `finally`, otherwise `return mod`
load_exit(f) == IF f.exc = NoExc THEN "return" ELSE "raise"

\* ------------------------------------------------------------------------
\* State
\* ------------------------------------------------------------------------
Threads == {1, 2}

VARIABLES
  sys_modules,   \* sys.modules: fullname -> module id
  mods,          \* the module objects ever created, by id
  main_ns,       \* the interactive session's namespace (namespace id 0)
  user_ns,       \* InteractiveShell.instance().user_ns: a namespace id
  loaders,       \* NotebookFinder.loaders: key -> loader id
  loader_objs,   \* the NotebookLoader objects ever created, by id
  stack,         \* per thread: the active load_module frames, innermost first
  ret,           \* per thread: what the frame that just exited handed to its caller
  call,          \* per thread: the top-level call in progress
  executed,      \* history: the <<module id, cell index>> handed to exec, in order
  found,         \* history: <<path, loader id>> of the find_module calls that returned a loader
  ncalls,        \* number of top-level calls made
  lastfind,      \* history: the latest find_module call and what it did
  meta_path,     \* sys.meta_path
  nreg,          \* history: how often the registration cell has run
  limit,         \* the number of top-level calls this run may make
  lfs,           \* find_notebook on its own: the regular files
  lreq,          \* find_notebook on its own: the arguments
  lres           \* find_notebook on its own: the result

vars == <<sys_modules, mods, main_ns, user_ns, loaders, loader_objs, stack, ret,
          call, executed, found, ncalls, lastfind, meta_path, nreg, limit, lfs, lreq,
          lres>>

mvars == <<sys_modules, mods, main_ns, user_ns, loaders, loader_objs, stack, ret,
           call, executed, found, ncalls, lastfind, meta_path, nreg>>

rvars == <<meta_path, nreg>>

lvars == <<lfs, lreq, lres>>

\* a load_module activation; orig and the entry_ fields are history
Frame(fullname, self) ==
  [fullname |-> fullname, self |-> self, pc |-> "find",
   path |-> NoneStr, nb |-> <<>>, mod |-> 0, save_user_ns |-> 0,
   i |-> 1, j |-> 0, code |-> <<>>, exc |-> NoExc,
   orig |-> NoExc,
   entry_user_ns |-> user_ns,
   entry_content |-> IF user_ns = 0 THEN main_ns ELSE mods[user_ns].dict,
   entry_sys_modules |-> sys_modules,
   entry_nexec |-> Len(executed)]

NoFrame ==
  [fullname |-> <<>>, self |-> 0, pc |-> "",
   path |-> NoneStr, nb |-> <<>>, mod |-> 0, save_user_ns |-> 0,
   i |-> 0, j |-> 0, code |-> <<>>, exc |-> NoExc,
   orig |-> NoExc, entry_user_ns |-> 0, entry_content |-> EmptyNs,
   entry_sys_modules |-> <<>>, entry_nexec |-> 0]

NoRet == [kind |-> "none", mod |-> 0, exc |-> NoExc, frame |-> NoFrame]

Return(f) == [kind |-> "return", mod |-> f.mod, exc |-> NoExc, frame |-> f]

Raised(f, e) == [kind |-> "raise", mod |-> 0, exc |-> e, frame |-> f]

\* the record of one find_module call: arguments, outcome, and the loader
\* cache and the number of loader objects before and after it
FindRecord(fullname, path, r, cache, objs) ==
  [called |-> TRUE, fullname |-> fullname, path |-> path,
   loader |-> r.loader, raised |-> r.raised,
   before |-> cache, after |-> r.cache,
   nbefore |-> Len(objs), nafter |-> Len(r.objs)]

NoFind ==
  [called |-> FALSE, fullname |-> <<>>, path |-> NonePath,
   loader |-> 0, raised |-> FALSE,
   before |-> <<>>, after |-> <<>>, nbefore |-> 0, nafter |-> 0]

\* the finders Python installs on sys.meta_path itself
HostFinders ==
  << [kind |-> "BuiltinImporter", id |-> 0],
     [kind |-> "FrozenImporter", id |-> 0],
     [kind |-> "PathFinder", id |-> 0] >>

\* NotebookFinder(): the id-th instance created
NotebookFinder(id) == [kind |-> "NotebookFinder", id |-> id]

\* meta_path_append putting the finder in front
meta_path_insert_first(mp, finder) == <<finder>> \o mp

\* sys.meta_path.append(NotebookFinder())
meta_path_append(mp, finder) == Append(mp, finder)

Idle == [op |-> "idle", var |-> ""]

Off == [op |-> "off", var |-> ""]

NsGet(id) == IF id = 0 THEN main_ns ELSE mods[id].dict

\* the two places a binding of `name` in namespace `id` can land
MainAfter(id, name, val) == IF id = 0 THEN [main_ns EXCEPT ![name] = val] ELSE main_ns

ModsAfter(id, name, val) == IF id = 0 THEN mods ELSE [mods EXCEPT ![id].dict[name] = val]

Top(t) == Head(stack[t])

SetTop(t, f) == stack' = [stack EXCEPT ![t] = <<f>> \o Tail(@)]

Push(t, f) == stack' = [stack EXCEPT ![t] = <<f>> \o @]

\* Fail with an `except: continue` around exec: the loop goes on
Fail_continue(f, e) ==
  [f EXCEPT !.pc = "loop", !.i = @ + 1, !.j = 0, !.code = <<>>, !.orig = e]

\* an exception leaves the try block of frame f
Fail(f, e) == [f EXCEPT !.pc = "finally", !.exc = e, !.orig = e]

InitMain ==
  /\ sys_modules = <<>>
  /\ mods = <<>>
  /\ main_ns = [EmptyNs EXCEPT !["get_ipython"] = Fn]
  /\ user_ns = 0
  /\ loaders = <<>>
  /\ loader_objs = <<>>
  /\ stack = [t \in Threads |-> <<>>]
  /\ ret = [t \in Threads |-> NoRet]
  /\ executed = <<>>
  /\ found = {}
  /\ ncalls = 0
  /\ lastfind = NoFind
  /\ meta_path = meta_path_append(HostFinders, NotebookFinder(1))
  /\ nreg = 1

InitLoc ==
  /\ lfs = {}
  /\ lreq = [fullname |-> <<>>, path |-> NonePath]
  /\ lres = NoneStr

Init ==
  /\ InitMain
  /\ InitLoc
  /\ limit = MaxCalls
  /\ call = [t \in Threads |-> IF t = 1 THEN Idle ELSE Off]

\* thread u holds the import lock of `name`: it is loading it through an
\* import statement (a direct call of load_module takes no lock)
LockHeld(u, name) ==
  \E k \in 1..Len(stack[u]) :
    /\ stack[u][k].fullname = name
    /\ ~(k = Len(stack[u]) /\ call[u].op = "load")

\* an import statement of thread t for `name` has to wait: the name is not in
\* sys.modules yet and another thread holds its import lock
ImportBlocked(t, name) ==
  /\ name \notin DOMAIN sys_modules
  /\ \E u \in Threads \ {t} : LockHeld(u, name)

CanCall(t) ==
  /\ call[t] = Idle
  /\ stack[t] = <<>>
  /\ ret[t] = NoRet
  /\ ncalls < limit

\* ------------------------------------------------------------------------
\* The interactive session: top-level calls
\* ------------------------------------------------------------------------
\* `import name` typed in the session: sys.modules first, then the finder
\* with path None, then the loader it returned
UserImport(t, imp) ==
  /\ CanCall(t)
  /\ ~ImportBlocked(t, imp[2])
  /\ ncalls' = ncalls + 1
  /\ IF imp[2] \in DOMAIN sys_modules
       THEN /\ main_ns' = [main_ns EXCEPT ![imp[1]] = ModRef(sys_modules[imp[2]])]
            /\ UNCHANGED <<loaders, loader_objs, stack, call, found, lastfind>>
       ELSE LET r == find_module(imp[2], NonePath, loaders, loader_objs)
            IN  /\ loaders' = r.cache
                /\ loader_objs' = r.objs
                /\ found' = IF r.loader # 0 THEN found \cup {<<NonePath, r.loader>>}
                            ELSE found
                /\ lastfind' = FindRecord(imp[2], NonePath, r, loaders, loader_objs)
                /\ IF r.loader = 0
                     THEN UNCHANGED <<stack, call>>
                     ELSE /\ Push(t, Frame(imp[2], r.loader))
                          /\ call' = [call EXCEPT ![t] = [op |-> "import", var |-> imp[1]]]
                /\ UNCHANGED main_ns
  /\ UNCHANGED <<sys_modules, mods, user_ns, ret, executed, lvars, limit, rvars>>

\* finder.find_module(fullname, path) called directly
UserFind(t, fullname, path) ==
  /\ CanCall(t)
  /\ ncalls' = ncalls + 1
  /\ LET r == find_module(fullname, path, loaders, loader_objs)
     IN  /\ loaders' = r.cache
         /\ loader_objs' = r.objs
         /\ found' = IF r.loader # 0 THEN found \cup {<<path, r.loader>>} ELSE found
         /\ lastfind' = FindRecord(fullname, path, r, loaders, loader_objs)
  /\ UNCHANGED <<sys_modules, mods, main_ns, user_ns, stack, ret, call, executed, lvars, limit, rvars>>

\* loader.load_module(fullname) called directly on a loader the finder returned
UserLoad(t, self, fullname) ==
  /\ CanCall(t)
  /\ self \in 1..Len(loader_objs)
  /\ ncalls' = ncalls + 1
  /\ Push(t, Frame(fullname, self))
  /\ call' = [call EXCEPT ![t] = [op |-> "load", var |-> ""]]
  /\ UNCHANGED <<sys_modules, mods, main_ns, user_ns, loaders, loader_objs, ret,
                 executed, found, lastfind, lvars, limit, rvars>>

\* the cell `sys.meta_path.append(NotebookFinder())` is run again.  The
\* finders are consulted in order and a later NotebookFinder declines exactly
\* the names the first one declines, so only the first one's cache is used.
Register(t) ==
  /\ CanCall(t)
  /\ ncalls' = ncalls + 1
  /\ meta_path' = meta_path_append(meta_path, NotebookFinder(nreg + 1))
  /\ nreg' = nreg + 1
  /\ UNCHANGED <<sys_modules, mods, main_ns, user_ns, loaders, loader_objs, stack, ret,
                 call, executed, found, lastfind, lvars, limit>>

\* the top-level call receives what load_module returned or raised
Complete(t) ==
  /\ stack[t] = <<>>
  /\ ret[t] # NoRet
  /\ main_ns' = IF call[t].op = "import" /\ ret[t].kind = "return"
                  THEN [main_ns EXCEPT ![call[t].var] = ModRef(ret[t].mod)]
                  ELSE main_ns
  /\ ret' = [ret EXCEPT ![t] = NoRet]
  /\ call' = [call EXCEPT ![t] = Idle]
  /\ UNCHANGED <<sys_modules, mods, user_ns, loaders, loader_objs, stack, executed,
                 found, lastfind, ncalls, lvars, limit, rvars>>

\* ------------------------------------------------------------------------
\* load_module, step by step
\* ------------------------------------------------------------------------
\* path = find_notebook(...); io.open(path); nb = read(f, 4)
LoadFind(t) ==
  /\ stack[t] # <<>>
  /\ Top(t).pc = "find"
  /\ LET f == Top(t)
         path == find_notebook(f.fullname, loader_objs[f.self].path, IsFile)
     IN  IF path.isNone
           THEN /\ stack' = [stack EXCEPT ![t] = Tail(@)]
                /\ ret' = [ret EXCEPT ![t] = Raised(f, Exc("TypeError", 0, 0, 0))]
         ELSE IF ~parses(Files[path.s])
           THEN /\ stack' = [stack EXCEPT ![t] = Tail(@)]
                /\ ret' = [ret EXCEPT ![t] =
                             Raised([f EXCEPT !.path = path], Exc("ReadError", 0, 0, 0))]
         ELSE /\ SetTop(t, [f EXCEPT !.path = path, !.nb = Files[path.s].cells,
                                     !.pc = "create"])
              /\ UNCHANGED ret
  /\ UNCHANGED <<sys_modules, mods, main_ns, user_ns, loaders, loader_objs, call,
                 executed, found, lastfind, ncalls, lvars, limit, rvars>>

\* mod = types.ModuleType(fullname) ... sys.modules[fullname] = mod
LoadCreate(t) ==
  /\ stack[t] # <<>>
  /\ Top(t).pc = "create"
  /\ LET f == Top(t)
         id == Len(mods) + 1
     IN  /\ mods' = Append(mods, new_module(f.fullname, f.path.s, f.self))
         /\ sys_modules' = register(sys_modules, f.fullname, id)
         /\ SetTop(t, [f EXCEPT !.mod = id, !.pc = "save"])
  /\ UNCHANGED <<main_ns, user_ns, loaders, loader_objs, ret, call, executed, found, lastfind,
                 ncalls, lvars, limit, rvars>>

\* save_user_ns = self.shell.user_ns
LoadSave(t) ==
  /\ stack[t] # <<>>
  /\ Top(t).pc = "save"
  /\ SetTop(t, [Top(t) EXCEPT !.save_user_ns = user_ns, !.pc = "swap"])
  /\ UNCHANGED <<sys_modules, mods, main_ns, user_ns, loaders, loader_objs, ret, call,
                 executed, found, lastfind, ncalls, lvars, limit, rvars>>

\* self.shell.user_ns = mod.__dict__
LoadSwap(t) ==
  /\ stack[t] # <<>>
  /\ Top(t).pc = "swap"
  /\ user_ns' = swap_ns(Top(t))
  /\ SetTop(t, [Top(t) EXCEPT !.pc = "loop"])
  /\ UNCHANGED <<sys_modules, mods, main_ns, loaders, loader_objs, ret, call, executed,
                 found, lastfind, ncalls, lvars, limit, rvars>>

\* one iteration of `for cell in nb.cells` up to the call of exec
LoadLoop(t) ==
  /\ stack[t] # <<>>
  /\ Top(t).pc = "loop"
  /\ LET f == Top(t)
     IN  IF f.i > Len(f.nb)
           THEN /\ SetTop(t, [f EXCEPT !.pc = "finally"])
                /\ UNCHANGED executed
         ELSE IF ~is_code(cell_at(f.nb, f.i))
           THEN /\ SetTop(t, [f EXCEPT !.i = @ + 1])
                /\ UNCHANGED executed
         ELSE LET code == transform_cell(cell_at(f.nb, f.i).source)
              IN  /\ executed' = Append(executed, <<f.mod, f.i>>)
                  /\ IF Compiles(code)
                       THEN SetTop(t, [f EXCEPT !.code = code, !.j = 1, !.pc = "exec"])
                       ELSE SetTop(t, Fail([f EXCEPT !.code = code],
                                           Exc("SyntaxError", f.mod, f.i, 0)))
  /\ UNCHANGED <<sys_modules, mods, main_ns, user_ns, loaders, loader_objs, ret, call,
                 found, lastfind, ncalls, lvars, limit, rvars>>

\* exec(code, mod.__dict__): the next statement of the cell
ExecStmt(t) ==
  /\ stack[t] # <<>>
  /\ Top(t).pc = "exec"
  /\ ~(/\ Top(t).j \in 1..Len(Top(t).code)
       /\ Top(t).code[Top(t).j].op = "import"
       /\ ImportBlocked(t, Top(t).code[Top(t).j].mod))
  /\ LET f == Top(t)
         next == [f EXCEPT !.j = @ + 1]
         here(type) == Exc(type, f.mod, f.i, f.j)
     IN  IF f.j > Len(f.code)
           THEN /\ SetTop(t, [f EXCEPT !.i = @ + 1, !.j = 0, !.code = <<>>, !.pc = "loop"])
                /\ UNCHANGED <<mods, main_ns, loaders, loader_objs, found, lastfind>>
         ELSE LET s == f.code[f.j]
              IN  CASE s.op = "bind" ->
                         /\ mods' = ModsAfter(f.mod, s.name, PyInt(s.val))
                         /\ SetTop(t, next)
                         /\ UNCHANGED <<main_ns, loaders, loader_objs, found, lastfind>>
                    [] s.op = "use" ->
                         /\ IF mods[f.mod].dict[s.src].t = "int"
                              THEN /\ mods' = ModsAfter(f.mod, s.name,
                                                        PyInt(mods[f.mod].dict[s.src].v + 1))
                                   /\ SetTop(t, next)
                              ELSE /\ SetTop(t, Fail(f, here("NameError")))
                                   /\ UNCHANGED mods
                         /\ UNCHANGED <<main_ns, loaders, loader_objs, found, lastfind>>
                    [] s.op = "raise" ->
                         /\ SetTop(t, Fail(f, here("RuntimeError")))
                         /\ UNCHANGED <<mods, main_ns, loaders, loader_objs, found, lastfind>>
                    [] s.op = "run_magic" ->
                         /\ mods' = ModsAfter(user_ns, s.name, PyInt(s.val))
                         /\ main_ns' = MainAfter(user_ns, s.name, PyInt(s.val))
                         /\ SetTop(t, next)
                         /\ UNCHANGED <<loaders, loader_objs, found, lastfind>>
                    [] s.op = "import" ->
                         IF s.mod \in DOMAIN sys_modules
                           THEN /\ mods' = ModsAfter(f.mod, s.name, ModRef(sys_modules[s.mod]))
                                /\ SetTop(t, next)
                                /\ UNCHANGED <<main_ns, loaders, loader_objs, found, lastfind>>
                           ELSE LET r == find_module(s.mod, NonePath, loaders, loader_objs)
                                IN  /\ loaders' = r.cache
                                    /\ loader_objs' = r.objs
                                    /\ found' = IF r.loader # 0
                                                  THEN found \cup {<<NonePath, r.loader>>}
                                                  ELSE found
                                    /\ lastfind' = FindRecord(s.mod, NonePath, r, loaders,
                                                              loader_objs)
                                    /\ IF r.loader = 0
                                         THEN SetTop(t, Fail(f, here("ModuleNotFoundError")))
                                         ELSE stack' = [stack EXCEPT ![t] =
                                                <<Frame(s.mod, r.loader),
                                                  [f EXCEPT !.pc = "wait"]>> \o Tail(@)]
                                    /\ UNCHANGED <<mods, main_ns>>
  /\ UNCHANGED <<sys_modules, user_ns, ret, call, executed, ncalls, lvars, limit, rvars>>

\* the import statement of a cell receives what the nested load_module
\* returned or raised
ImportReturn(t) ==
  /\ stack[t] # <<>>
  /\ Top(t).pc = "wait"
  /\ ret[t] # NoRet
  /\ LET f == Top(t)
         s == f.code[f.j]
     IN  IF ret[t].kind = "return"
           THEN /\ mods' = ModsAfter(f.mod, s.name, ModRef(ret[t].mod))
                /\ SetTop(t, [f EXCEPT !.j = @ + 1, !.pc = "exec"])
           ELSE /\ SetTop(t, Fail(f, ret[t].exc))
                /\ UNCHANGED mods
  /\ ret' = [ret EXCEPT ![t] = NoRet]
  /\ UNCHANGED <<sys_modules, main_ns, user_ns, loaders, loader_objs, call, executed,
                 found, lastfind, ncalls, lvars, limit, rvars>>

\* finally: self.shell.user_ns = save_user_ns; then return mod, or the
\* exception goes on to the caller
LoadFinally(t) ==
  /\ stack[t] # <<>>
  /\ Top(t).pc = "finally"
  /\ LET f == Top(t)
     IN  /\ user_ns' = restore_ns(f)
         /\ ret' = [ret EXCEPT ![t] = IF load_exit(f) = "return" THEN Return(f)
                                      ELSE Raised(f, f.exc)]
         /\ stack' = [stack EXCEPT ![t] = Tail(@)]
  /\ UNCHANGED <<sys_modules, mods, main_ns, loaders, loader_objs, call, executed,
                 found, lastfind, ncalls, lvars, limit, rvars>>

Next ==
  \E t \in Threads :
    \/ \E imp \in ImportNames : UserImport(t, imp)
    \/ \E fullname \in CallNames, path \in CallPaths : UserFind(t, fullname, path)
    \/ \E self \in 1..Len(loader_objs), fullname \in CallNames : UserLoad(t, self, fullname)
    \/ Register(t)
    \/ Complete(t)
    \/ LoadFind(t)
    \/ LoadCreate(t)
    \/ LoadSave(t)
    \/ LoadSwap(t)
    \/ LoadLoop(t)
    \/ ExecStmt(t)
    \/ ImportReturn(t)
    \/ LoadFinally(t)

Spec == Init /\ [][Next]_vars

\* two threads of one process use the import hook
InitMT ==
  /\ InitMain
  /\ InitLoc
  /\ limit = MaxCallsMT
  /\ call = [t \in Threads |-> Idle]

\* what the two threads do: fewer names and paths than the single session
ImportNamesMT == {<<"b", nB>>, <<"c", nC>>}

CallNamesMT == {nN}

CallPathsMT == {List(<<dirPQ>>)}

NextMT ==
  \E t \in Threads :
    \/ \E imp \in ImportNamesMT : UserImport(t, imp)
    \/ \E fullname \in CallNamesMT, path \in CallPathsMT : UserFind(t, fullname, path)
    \/ \E self \in 1..Len(loader_objs), fullname \in CallNamesMT : UserLoad(t, self, fullname)
    \/ Register(t)
    \/ Complete(t)
    \/ LoadFind(t)
    \/ LoadCreate(t)
    \/ LoadSave(t)
    \/ LoadSwap(t)
    \/ LoadLoop(t)
    \/ ExecStmt(t)
    \/ ImportReturn(t)
    \/ LoadFinally(t)

SpecMT == InitMT /\ [][NextMT]_vars

\* ------------------------------------------------------------------------
\* find_notebook on its own: any small set of files, any request
\* ------------------------------------------------------------------------
dirD == <<"d">>

dirUS == <<"m", "_", "d">>

dirSP == <<"m", " ", "d">>

leafUS == <<"a", "_", "b">>

leafSP == <<"a", " ", "b">>

leafC == <<"c">>

LocDirs == {<<>>, dirD, dirUS, dirSP}

LocFiles ==
  {path_join(d, leaf \o Ext) : d \in LocDirs, leaf \in {leafUS, leafSP, leafC}}

LocNames == {leafUS, <<"p", ".">> \o leafUS, <<"p", ".", "q", ".">> \o leafC}

LocPaths ==
  {NonePath, List(<<>>), List(<<dirD>>), List(<<dirUS>>), List(<<dirSP>>),
   List(<<dirD, dirUS>>), List(<<dirUS, dirD>>), List(<<dirSP, dirD>>)}

InitLocate ==
  /\ InitMain
  /\ limit = 0
  /\ call = [t \in Threads |-> Off]
  /\ lfs \in {F \in SUBSET LocFiles : Cardinality(F) <= MaxLocFiles}
  /\ lreq = [fullname |-> <<>>, path |-> NonePath]
  /\ lres = NoneStr

Locate(fullname, path) ==
  /\ lreq' = [fullname |-> fullname, path |-> path]
  /\ lres' = find_notebook(fullname, path, lfs)
  /\ UNCHANGED <<mvars, lfs, limit>>

NextLocate == \E fullname \in LocNames, path \in LocPaths : Locate(fullname, path)

SpecLocate == InitLocate /\ [][NextLocate]_vars

\* ------------------------------------------------------------------------
\* Vocabulary of the properties
\* ------------------------------------------------------------------------
IsPrefix(s, u) == Len(s) <= Len(u) /\ SubSeq(u, 1, Len(s)) = s

\* the indices of the code cells of a document, in document order
RECURSIVE CodeIdxFrom(_, _)
CodeIdxFrom(cells, i) ==
  IF i > Len(cells) THEN <<>>
  ELSE IF cells[i].cell_type = "code" THEN <<i>> \o CodeIdxFrom(cells, i + 1)
  ELSE CodeIdxFrom(cells, i + 1)

CodeIdx(cells) == CodeIdxFrom(cells, 1)

\* the cell indices handed to exec for module m, in the order they were
RECURSIVE ExecFrom(_, _)
ExecFrom(m, k) ==
  IF k > Len(executed) THEN <<>>
  ELSE IF executed[k][1] = m THEN <<executed[k][2]>> \o ExecFrom(m, k + 1)
  ELSE ExecFrom(m, k + 1)

ExecOf(m) == ExecFrom(m, 1)

\* the document module m was built from
DocOf(m) == Files[mods[m].file].cells

\* a namespace with module references replaced by the modules' names
Norm(ns) ==
  [k \in VarNames |->
     IF ns[k].t = "module" THEN [t |-> "module", v |-> 0, name |-> mods[ns[k].v].name]
     ELSE [t |-> ns[k].t, v |-> ns[k].v, name |-> <<>>]]

\* what one statement of a fragment does to the namespace it runs in
Effect(ns, s) ==
  IF s.op \in {"bind", "%magic"} THEN [ns EXCEPT ![s.name] = [t |-> "int", v |-> s.val, name |-> <<>>]]
  ELSE IF s.op = "use" /\ ns[s.src].t = "int"
    THEN [ns EXCEPT ![s.name] = [t |-> "int", v |-> ns[s.src].v + 1, name |-> <<>>]]
  ELSE IF s.op = "import" THEN [ns EXCEPT ![s.name] = [t |-> "module", v |-> 0, name |-> s.mod]]
  ELSE ns

RECURSIVE EffectOfStmts(_, _, _)
EffectOfStmts(ns, source, n) ==
  IF n <= 0 THEN ns ELSE Effect(EffectOfStmts(ns, source, n - 1), source[n])

\* a fresh module namespace after the code fragments before fragment i and
\* the first n statements of fragment i
RECURSIVE EffectOfCells(_, _)
EffectOfCells(cells, i) ==
  IF i <= 0 THEN [k \in VarNames |->
                    IF k = "get_ipython" THEN [t |-> "function", v |-> 0, name |-> <<>>]
                    ELSE [t |-> "unbound", v |-> 0, name |-> <<>>]]
  ELSE IF cells[i].cell_type = "code"
    THEN EffectOfStmts(EffectOfCells(cells, i - 1), cells[i].source, Len(cells[i].source))
  ELSE EffectOfCells(cells, i - 1)

Expected(cells, i, n) ==
  IF i > Len(cells) \/ cells[i].cell_type # "code" THEN EffectOfCells(cells, i - 1)
  ELSE EffectOfStmts(EffectOfCells(cells, i - 1), cells[i].source, n)

\* a load_module call has just exited on thread t
Exited(t) == ret[t].kind # "none"

\* ... because an exception left its try block
FragmentFailed(t) == Exited(t) /\ ret[t].frame.orig # NoExc

\* ------------------------------------------------------------------------
\* Properties
\* ------------------------------------------------------------------------
\* C1: whenever a load_module call exits, by return or by exception, nested
\* or not, shell.user_ns is the namespace that was current when the call began.
C1_NamespaceRestored ==
  \A t \in Threads : Exited(t) => user_ns = ret[t].frame.entry_user_ns

\* a nested load that failed in a fragment has exited, back in the namespace
\* of the module that imported it
C1_Witness ==
  \E t \in Threads :
    /\ FragmentFailed(t)
    /\ stack[t] # <<>>
    /\ ret[t].frame.entry_user_ns = Top(t).mod
    /\ ret[t].frame.entry_user_ns # 0
    /\ ret[t].frame.mod # ret[t].frame.entry_user_ns

\* C2: the cells handed to exec for one module are an initial part of its
\* document's code cells in document order (each once, none of another kind);
\* after a successful load they are all of them and the module's namespace is
\* the result of applying them in that order.
C2_DocumentOrder ==
  /\ \A m \in 1..Len(mods) : IsPrefix(ExecOf(m), CodeIdx(DocOf(m)))
  /\ \A t \in Threads :
       ret[t].kind = "return" =>
         /\ ExecOf(ret[t].mod) = CodeIdx(DocOf(ret[t].mod))
         /\ Norm(mods[ret[t].mod].dict)
              = Expected(DocOf(ret[t].mod), Len(DocOf(ret[t].mod)) + 1, 0)

\* the load of a.ipynb, [code x=1, markdown, code y=x+1; import b], returned:
\* cells 1 and 3 ran and y is 2
C2_Witness ==
  \E t \in Threads :
    /\ ret[t].kind = "return"
    /\ ret[t].frame.fullname = nA
    /\ ExecOf(ret[t].mod) = <<1, 3>>
    /\ mods[ret[t].mod].dict["y"] = PyInt(2)
    /\ mods[ret[t].mod].dict["z"] = Unbound

\* C3: from the moment a load has created its module, sys.modules maps the
\* name to that module for as long as the load is active, and no name is being
\* loaded twice on one call stack (a circular import does not recurse).
C3_RegisteredBeforeExec ==
  \A t \in Threads :
    /\ \A k \in 1..Len(stack[t]) :
         stack[t][k].pc \in {"save", "swap", "loop", "exec", "wait", "finally"} =>
           /\ stack[t][k].fullname \in DOMAIN sys_modules
           /\ sys_modules[stack[t][k].fullname] = stack[t][k].mod
    /\ \A k1, k2 \in 1..Len(stack[t]) :
         stack[t][k1].fullname = stack[t][k2].fullname => k1 = k2

\* b, imported by a fragment of a, has imported a back and got the
\* in-progress module of the load that is waiting for it
C3_Witness ==
  \E t \in Threads :
    /\ Len(stack[t]) = 2
    /\ stack[t][1].fullname = nB
    /\ stack[t][2].fullname = nA
    /\ stack[t][2].pc = "wait"
    /\ stack[t][1].pc = "exec"
    /\ mods[stack[t][1].mod].dict["a"] = ModRef(stack[t][2].mod)

\* C4: two find_module calls that returned a loader got the same loader
\* exactly when they were given the same search path.
C4_LoaderPerPath ==
  \A p, q \in found : (p[1] = q[1]) <=> (p[2] = q[2])

\* C5: for a single search directory d, find_notebook returns d/leaf.ipynb when
\* it is a file, else d/<leaf with _ as space>.ipynb when that is a file, else
\* None, where leaf is what follows the last dot of fullname.
C5_Locate ==
  (~lreq.path.isNone /\ Len(lreq.path.dirs) = 1 /\ lreq.path.dirs[1] # <<>>) =>
    LET d == lreq.path.dirs[1]
        leaf == rsplit_last(lreq.fullname)
        exact == d \o <<"/">> \o leaf \o Ext
        spaced == d \o <<"/">> \o replace_us(leaf) \o Ext
    IN  lres = IF exact \in lfs THEN Str(exact)
               ELSE IF spaced \in lfs THEN Str(spaced)
               ELSE NoneStr

C7_PartialExact ==
  \A t \in Threads :
    FragmentFailed(t) =>
      /\ ret[t].frame.fullname \in DOMAIN sys_modules
      /\ sys_modules[ret[t].frame.fullname] = ret[t].frame.mod
      /\ Norm(mods[ret[t].frame.mod].dict)
           = Expected(DocOf(ret[t].frame.mod), ret[t].frame.i, 0)

\* C7 amended: ... whose namespace holds the effects of the code fragments
\* before k and of the statements of fragment k that ran before the one that
\* raised.
C7_PartialKept ==
  \A t \in Threads :
    FragmentFailed(t) =>
      /\ ret[t].frame.fullname \in DOMAIN sys_modules
      /\ sys_modules[ret[t].frame.fullname] = ret[t].frame.mod
      /\ Norm(mods[ret[t].frame.mod].dict)
           = Expected(DocOf(ret[t].frame.mod), ret[t].frame.i, ret[t].frame.j - 1)

\* the load of c failed in its second code cell: x of the first cell and w of
\* the second are bound, v of the third is not, and the module is registered
C7_Witness ==
  \E t \in Threads :
    /\ FragmentFailed(t)
    /\ ret[t].frame.fullname = nC
    /\ ret[t].frame.i = 2
    /\ sys_modules[nC] = ret[t].frame.mod
    /\ mods[ret[t].frame.mod].dict["x"] = PyInt(1)
    /\ mods[ret[t].frame.mod].dict["w"] = PyInt(2)
    /\ mods[ret[t].frame.mod].dict["v"] = Unbound

\* C8: when load_module returns, sys.modules maps the name to the module it
\* returns, whose __file__ is the path find_notebook resolves for the loader
\* and whose __loader__ is the loader that was called.
C8_Registered ==
  \A t \in Threads :
    ret[t].kind = "return" =>
      LET f == ret[t].frame
      IN  /\ f.fullname \in DOMAIN sys_modules
          /\ sys_modules[f.fullname] = ret[t].mod
          /\ Str(mods[ret[t].mod].file)
               = find_notebook(f.fullname, loader_objs[f.self].path, IsFile)
          /\ mods[ret[t].mod].loader = f.self
          /\ mods[ret[t].mod].name = f.fullname

\* a loader found with a search path has loaded n from a directory of it
C8_Witness ==
  \E t \in Threads :
    /\ ret[t].kind = "return"
    /\ ret[t].frame.fullname = nN
    /\ ~loader_objs[ret[t].frame.self].path.isNone
    /\ mods[ret[t].mod].file \in {path_join(dirP, nN \o Ext), path_join(dirPQ, nN \o Ext)}
    /\ sys_modules[nN] = ret[t].mod

\* C9: however often a name is loaded, no code cell of its document is handed
\* to exec twice and sys.modules keeps the module the first load created.
C9_LoadedOnce ==
  /\ \A k1, k2 \in 1..Len(executed) :
       (/\ mods[executed[k1][1]].name = mods[executed[k2][1]].name
        /\ executed[k1][2] = executed[k2][2]) => k1 = k2
  /\ \A name \in DOMAIN sys_modules :
       \A m \in 1..Len(mods) : mods[m].name = name => sys_modules[name] <= m

\* C10: while a load runs its cells shell.user_ns is the namespace of the
\* module being built, values stored by fragments never land in the session's
\* namespace, and when a load returns the namespace that was current before it
\* has the content it had then.
C10_Isolation ==
  /\ \A t \in Threads :
       (stack[t] # <<>> /\ Top(t).pc \in {"loop", "exec", "finally"}) =>
         user_ns = Top(t).mod
  /\ \A k \in VarNames : main_ns[k].t # "int"
  /\ \A t \in Threads :
       ret[t].kind = "return" =>
         NsGet(ret[t].frame.entry_user_ns) = ret[t].frame.entry_content

\* the load of b, imported by a fragment of a, returned: its magic stored m
\* in b's namespace and a's namespace is as it was
C10_Witness ==
  \E t \in Threads :
    /\ ret[t].kind = "return"
    /\ ret[t].frame.fullname = nB
    /\ mods[ret[t].mod].dict["m"] = PyInt(5)
    /\ ret[t].frame.entry_user_ns # 0
    /\ mods[ret[t].frame.entry_user_ns].dict["m"] = Unbound
    /\ mods[ret[t].frame.entry_user_ns].dict["x"] = PyInt(1)

\* C11: when the document of a load cannot be located or parsed, the call
\* raises without having created a module: sys.modules and shell.user_ns are
\* what they were when the call began and no cell was handed to exec.
C11_FailedBeforeCreate ==
  \A t \in Threads :
    Exited(t) =>
      LET f == ret[t].frame
          located == find_notebook(f.fullname, loader_objs[f.self].path, IsFile)
      IN  (located.isNone \/ ~Files[located.s].ok) =>
            /\ ret[t].kind = "raise"
            /\ f.mod = 0
            /\ sys_modules = f.entry_sys_modules
            /\ Len(executed) = f.entry_nexec
            /\ user_ns = f.entry_user_ns

\* the load of the unparsable e.ipynb raised, after another module had been
\* registered
C11_Witness ==
  \E t \in Threads :
    /\ ret[t].kind = "raise"
    /\ ret[t].frame.fullname = nE
    /\ ret[t].exc.type = "ReadError"
    /\ sys_modules # <<>>
    /\ nE \notin DOMAIN sys_modules

\* C12: find_module returns None exactly when find_notebook finds nothing, and
\* then it raises nothing and leaves self.loaders and the loader objects as
\* they were.
C12_DeclineIffNotFound ==
  lastfind.called =>
    LET notfound == find_notebook(lastfind.fullname, lastfind.path, IsFile).isNone
    IN  /\ (lastfind.loader = 0 /\ ~lastfind.raised) <=> notfound
        /\ notfound => /\ ~lastfind.raised
                       /\ lastfind.after = lastfind.before
                       /\ lastfind.nafter = lastfind.nbefore

\* find_module declined a name under a search path, with a loader already
\* cached for another path
C12_Witness ==
  /\ lastfind.called
  /\ lastfind.loader = 0
  /\ ~lastfind.raised
  /\ ~Falsy(lastfind.path)
  /\ lastfind.before # <<>>
  /\ cache_key(lastfind.path) \notin DOMAIN loaders

\* C13: a loader returned by find_module(fullname, path) is bound to that very
\* path, so its load_module(fullname) resolves the document find_module located.
C13_FindLoadConsistent ==
  (lastfind.called /\ lastfind.loader # 0) =>
    /\ loader_objs[lastfind.loader].path = lastfind.path
    /\ find_notebook(lastfind.fullname, loader_objs[lastfind.loader].path, IsFile)
         = find_notebook(lastfind.fullname, lastfind.path, IsFile)

\* C14: find_module with None and with an empty list as path, for a name whose
\* notebook is in the current directory, raise nothing and return one and
\* the same loader.
C14_NoPathCanonical ==
  (/\ lastfind.called
   /\ Falsy(lastfind.path)
   /\ ~find_notebook(lastfind.fullname, lastfind.path, IsFile).isNone) =>
    /\ ~lastfind.raised
    /\ lastfind.loader # 0
    /\ \A p \in found : Falsy(p[1]) => p[2] = lastfind.loader

\* the directories a request searches, and a file name inside one of them
RequestDirs == IF Falsy(lreq.path) THEN << <<>> >> ELSE lreq.path.dirs

InDir(d, file) == IF d = <<>> THEN file ELSE d \o <<"/">> \o file

\* the first directory, in order, that holds leaf.ipynb or its space form,
\* and of the two the exact name
RECURSIVE FirstMatch(_, _, _)
FirstMatch(leaf, dirs, fs) ==
  IF dirs = <<>> THEN NoneStr
  ELSE IF InDir(Head(dirs), leaf \o Ext) \in fs THEN Str(InDir(Head(dirs), leaf \o Ext))
  ELSE IF InDir(Head(dirs), replace_us(leaf) \o Ext) \in fs
    THEN Str(InDir(Head(dirs), replace_us(leaf) \o Ext))
  ELSE FirstMatch(leaf, Tail(dirs), fs)

\* C15: the fallback rewrites only the leaf: whatever find_notebook returns is
\* leaf.ipynb or <leaf with _ as space>.ipynb inside one of the directories
\* searched, and a space-form file inside the single directory searched is
\* found when the exact name is not there.
C15_FallbackLeafOnly ==
  LET leaf == rsplit_last(lreq.fullname)
      exact(d) == InDir(d, leaf \o Ext)
      spaced(d) == InDir(d, replace_us(leaf) \o Ext)
  IN  /\ ~lres.isNone =>
           \E k \in 1..Len(RequestDirs) :
             lres.s \in {exact(RequestDirs[k]), spaced(RequestDirs[k])}
      /\ (/\ Len(RequestDirs) = 1
          /\ exact(RequestDirs[1]) \notin lfs
          /\ spaced(RequestDirs[1]) \in lfs) => lres = Str(spaced(RequestDirs[1]))

\* C16: with several directories find_notebook returns the match of the
\* earliest directory that holds either form, the exact name first.
C16_FirstMatch ==
  Len(RequestDirs) >= 2 =>
    lres = FirstMatch(rsplit_last(lreq.fullname), RequestDirs, lfs)

\* C17: with two threads loading, every load runs its cells with
\* shell.user_ns being its own module's namespace, and once all calls are
\* over shell.user_ns is the session's namespace again.
C17_MutualExclusion ==
  /\ \A t \in Threads :
       (stack[t] # <<>> /\ Top(t).pc \in {"loop", "exec"}) => user_ns = Top(t).mod
  /\ (\A t \in Threads : stack[t] = <<>> /\ ret[t] = NoRet) => user_ns = 0

\* the NotebookFinder instances on sys.meta_path, in order
FindersOn(mp) == SelectSeq(mp, LAMBDA e : e.kind = "NotebookFinder")

\* C18 as stated: however often the registration cell runs, sys.meta_path
\* holds exactly one NotebookFinder, after the host's finders.
C18_ExactlyOne ==
  /\ Len(FindersOn(meta_path)) = 1
  /\ SubSeq(meta_path, 1, Len(HostFinders)) = HostFinders

\* C18 amended: every run of the registration cell appends one new
\* NotebookFinder behind everything registered before, and none is removed:
\* after k runs sys.meta_path is the host's finders followed by k instances.
C18_OnePerRegistration ==
  meta_path = HostFinders \o [k \in 1..nreg |-> NotebookFinder(k)]

\* the registration cell has run a second time
C18_Witness ==
  /\ nreg = 2
  /\ Len(FindersOn(meta_path)) = 2
  /\ meta_path[Len(meta_path)] = NotebookFinder(2)

\* no load_module activation is building module m
Inactive(m) == \A t \in Threads : \A k \in 1..Len(stack[t]) : stack[t][k].mod # m

\* the names the code cells of a document bind in the cells from lo to hi
BoundIn(cells, lo, hi) ==
  UNION {{cells[i].source[n].name :
            n \in {n \in 1..Len(cells[i].source) : cells[i].source[n].op # "raise"}} :
         i \in {i \in lo..hi : i \in 1..Len(cells) /\ cells[i].cell_type = "code"}}

\* C19: when a load fails in a cell, that cell is the last one handed to exec
\* for the module, nothing a later cell alone would bind is bound, and a module
\* whose load is over is never executed into again.
C19_StopsAtFailure ==
  /\ [](\A t \in Threads :
          FragmentFailed(t) =>
            LET f == ret[t].frame
                k == IF f.orig.mod = f.mod THEN f.orig.cell ELSE f.i
                doc == DocOf(f.mod)
            IN  /\ ExecOf(f.mod) # <<>>
                /\ \A n \in 1..Len(ExecOf(f.mod)) : ExecOf(f.mod)[n] <= k
                /\ ExecOf(f.mod)[Len(ExecOf(f.mod))] = k
                /\ \A name \in BoundIn(doc, k + 1, Len(doc)) \ BoundIn(doc, 1, k) :
                     mods[f.mod].dict[name] = Unbound)
  /\ [][\A m \in 1..Len(mods) :
          Inactive(m) => /\ ExecOf(m)' = ExecOf(m)
                         /\ mods'[m] = mods[m]]_vars

\* the load of c failed in its second cell: cells 1 and 2 were executed, the
\* third was not and its name v is unbound
C19_Witness ==
  \E t \in Threads :
    /\ FragmentFailed(t)
    /\ ret[t].frame.fullname = nC
    /\ ret[t].frame.orig.cell = 2
    /\ ExecOf(ret[t].frame.mod) = <<1, 2>>
    /\ "v" \in BoundIn(DocOf(ret[t].frame.mod), 3, 3)
    /\ mods[ret[t].frame.mod].dict["v"] = Unbound

====
